---------------------------- MODULE Spec2Model ----------------------------
(***************************************************************************)
(* Model of src/src/lib.rs: the process-wide FolderHierarchy behind a      *)
(* Mutex (GLOBAL_DIRECTORY_MAP), the scan thread spawned by                *)
(* scan_directory_async, the recursive scan_folder / get_folder_size and   *)
(* the query get_directory_map.                                            *)
(*                                                                         *)
(* A string is a sequence of tokens: a path component ("r", "a", ...) or   *)
(* one of the two separator characters "/" and "\\".                       *)
(***************************************************************************)
EXTENDS Integers, Sequences, FiniteSets, TLC

(***************************************************************************)
(* Bounds of the model.                                                    *)
(***************************************************************************)
\* number of calls of scan_directory_async (each spawns one thread)
MaxScans == 2

(***************************************************************************)
(* The filesystem the scans run on.                                        *)
(*   r/            f1 (5 bytes)                                            *)
(*   r/a/          f2 (13 bytes)                                           *)
(*   r/a/a1/       f3 (12 bytes)                                           *)
(*   r/b/          f4 (7 bytes)                                            *)
(*   r\a/          (empty; one component, its name holds a backslash)      *)
(* "x" names no directory.  Which directories cannot be listed and which   *)
(* files have unreadable metadata is fixed per behaviour (unlistable,      *)
(* unreadable).                                                            *)
(***************************************************************************)
SEP == "/"
BSL == "\\"

Join(dir, name) == dir \o <<SEP, name>>

R  == <<"r">>
A  == Join(R, "a")
A1 == Join(A, "a1")
B  == Join(R, "b")
X  == <<"x">>
\* "/" is the only separator of the platform's paths: r\a is one component
W  == <<"r", BSL, "a">>

Dirs == {R, A, A1, B, W}

\* the names a listing of directory d yields; scan_folder takes them in this
\* order, the scan thread's root listing in any order (NextEntry)
DirList(d) ==
    IF d = R THEN <<"f1", "a", "b">>
    ELSE IF d = A THEN <<"f2", "a1">>
    ELSE IF d = A1 THEN <<"f3">>
    ELSE IF d = B THEN <<"f4">>
    ELSE <<>>

Files == { Join(R, "f1"), Join(A, "f2"), Join(A1, "f3"), Join(B, "f4") }

\* metadata.len() of a regular file
FileLen(p) ==
    IF p = Join(R, "f1") THEN 5
    ELSE IF p = Join(A, "f2") THEN 13
    ELSE IF p = Join(A1, "f3") THEN 12
    ELSE IF p = Join(B, "f4") THEN 7
    ELSE 0

\* Path::is_dir
IsDir(p) == p \in Dirs

\* the directories whose listing may fail and the files whose metadata may
\* be unreadable in some behaviour
MayFailDirs == {A1, B}
MayFailFiles == { Join(R, "f1"), Join(A, "f2") }

(***************************************************************************)
(* Path helpers of std::path used by the code.                             *)
(***************************************************************************)
\* position of the last separator of p, 0 if it has none
LastSep(p) ==
    IF \E i \in 1..Len(p) : p[i] = SEP
    THEN CHOOSE i \in 1..Len(p) : p[i] = SEP /\ \A j \in (i + 1)..Len(p) : p[j] # SEP
    ELSE 0

\* Path::file_name().unwrap_or_default(): the final component
FileName(p) == SubSeq(p, LastSep(p) + 1, Len(p))

\* Path::parent().unwrap_or_else(|| Path::new("")): the path without its
\* final component and the separator before it
Parent(p) == IF LastSep(p) = 0 THEN <<>> ELSE SubSeq(p, 1, LastSep(p) - 1)

\* str::replace("\\", "/")
\* mutant of Normalize: the separators are left as they are
NormalizeNone(s) == s

Normalize(s) == [i \in 1..Len(s) |-> IF s[i] = BSL THEN SEP ELSE s[i]]

(***************************************************************************)
(* FolderHierarchy                                                         *)
(***************************************************************************)
FolderHierarchy(v, n, p, c) == [value |-> v, name |-> n, path |-> p, children |-> c]

\* the value the lazy_static initialiser gives GLOBAL_DIRECTORY_MAP
EmptyHierarchy == FolderHierarchy(0, <<>>, <<>>, <<>>)

RECURSIVE SumValues(_)
SumValues(nodes) ==
    IF Len(nodes) = 0 THEN 0
    ELSE nodes[1].value + SumValues(Tail(nodes))

VARIABLES
    GLOBAL_DIRECTORY_MAP,   \* the FolderHierarchy inside the Mutex
    lockHolder,             \* 0, or the scan thread holding the MutexGuard
    poisoned,               \* the Mutex's poison flag
    nScans,                 \* scan threads spawned so far
    pc,                     \* position of each scan thread
    tpath,                  \* directory_path of each scan thread
    entries,                \* names the thread's root listing has not yielded yet
    cur,                    \* path of the entry the thread is processing
    sub,                    \* sub_hierarchy / file_entry about to be attached
    unlistable,             \* directories whose read_dir fails
    unreadable,             \* files whose metadata() fails
    seeder,                 \* history: the thread that set the published root (0: none)
    lastStart,              \* argument of the latest scan_directory_async that spawned
    startedIdle,            \* history: no scan thread was alive at that call
    lastQuery,              \* path of the latest get_directory_map; was a scan alive
    lastResult,             \* what that get_directory_map returned
    cancelRequested,        \* the stop flag a cancel() request sets
    measured                \* result of the latest direct call of the two walkers

vars == << GLOBAL_DIRECTORY_MAP, lockHolder, poisoned, nScans, pc, tpath, entries,
           cur, sub, unlistable, unreadable, seeder, lastStart, startedIdle,
           lastQuery, lastResult, cancelRequested, measured >>

Threads == 1..MaxScans

\* fs::read_dir(d) succeeds
Listable(d) == d \in Dirs /\ d \notin unlistable

(***************************************************************************)
(* scan_folder (lines 45-73): Err as soon as a listing fails, otherwise    *)
(* the node of the directory: one child per subdirectory, the readable     *)
(* files added to the value only.                                          *)
(***************************************************************************)
Err == [ok |-> FALSE]
Ok(node) == [ok |-> TRUE, node |-> node]

RECURSIVE scan_folder(_)
RECURSIVE ScanEntries(_, _, _, _)

\* mutant of ScanEntries: a subdirectory is attached but its size is not
\* added to total_size
RECURSIVE ScanEntriesChildSizeLost(_, _, _, _)
ScanEntriesChildSizeLost(dir, i, children, total_size) ==
    LET names == DirList(dir) IN
    IF i > Len(names)
    THEN Ok(FolderHierarchy(total_size, FileName(dir), Parent(dir), children))
    ELSE LET path == Join(dir, names[i]) IN
         IF IsDir(path)
         THEN LET child == scan_folder(path) IN
              IF ~child.ok THEN Err
              ELSE ScanEntriesChildSizeLost(dir, i + 1, Append(children, child.node),
                                            total_size)
         ELSE IF path \in unreadable
              THEN ScanEntriesChildSizeLost(dir, i + 1, children, total_size)
              ELSE ScanEntriesChildSizeLost(dir, i + 1, children,
                                            total_size + FileLen(path))

\* the while loop of scan_folder over the listing `names` of `dir`, from
\* index i with the accumulated children and total_size
ScanEntries(dir, i, children, total_size) ==
    LET names == DirList(dir) IN
    IF i > Len(names)
    THEN Ok(FolderHierarchy(total_size, FileName(dir), Parent(dir), children))
    ELSE LET path == Join(dir, names[i]) IN
         IF IsDir(path)
         THEN LET child == scan_folder(path) IN
              IF ~child.ok THEN Err
              ELSE ScanEntries(dir, i + 1, Append(children, child.node),
                               total_size + child.node.value)
         ELSE IF path \in unreadable
              THEN ScanEntries(dir, i + 1, children, total_size)
              ELSE ScanEntries(dir, i + 1, children, total_size + FileLen(path))

scan_folder(directory_path) ==
    IF ~Listable(directory_path) THEN Err
    ELSE ScanEntries(directory_path, 1, <<>>, 0)

(***************************************************************************)
(* get_folder_size (lines 25-42): Err as soon as a listing fails,          *)
(* otherwise the sum of the readable files' lengths below dir_path.        *)
(***************************************************************************)
OkSize(size) == [ok |-> TRUE, size |-> size]

RECURSIVE get_folder_size(_)

\* mutant of FolderSizeEntries: subdirectories are not descended into
RECURSIVE FolderSizeEntriesFlat(_, _, _)
FolderSizeEntriesFlat(dir, i, size) ==
    LET names == DirList(dir) IN
    IF i > Len(names) THEN OkSize(size)
    ELSE LET path == Join(dir, names[i]) IN
         IF IsDir(path) \/ path \in unreadable
         THEN FolderSizeEntriesFlat(dir, i + 1, size)
         ELSE FolderSizeEntriesFlat(dir, i + 1, size + FileLen(path))

\* the while loop of get_folder_size over the listing of `dir`, from index i
\* with the accumulated size
RECURSIVE FolderSizeEntries(_, _, _)
FolderSizeEntries(dir, i, size) ==
    LET names == DirList(dir) IN
    IF i > Len(names) THEN OkSize(size)
    ELSE LET path == Join(dir, names[i]) IN
         IF IsDir(path)
         THEN LET inner == get_folder_size(path) IN
              IF ~inner.ok THEN Err
              ELSE FolderSizeEntries(dir, i + 1, size + inner.size)
         ELSE IF path \in unreadable
              THEN FolderSizeEntries(dir, i + 1, size)
              ELSE FolderSizeEntries(dir, i + 1, size + FileLen(path))

get_folder_size(dir_path) ==
    IF ~Listable(dir_path) THEN Err
    ELSE FolderSizeEntries(dir_path, 1, 0)


(***************************************************************************)
(* Inputs of the two exported functions.                                   *)
(***************************************************************************)
\* a C string that is not UTF-8, for which CStr::to_str fails
InvalidUtf8 == <<"\\xFF">>
IsUtf8(c_str) == c_str # InvalidUtf8

ScanPaths == {R, A, W, X, InvalidUtf8}
QueryPaths == {R, A, W, InvalidUtf8}
Depths == {0, 1, 2}

NoCall == [path |-> <<>>, scanning |-> FALSE]
NotMeasured == [dir |-> <<>>, called |-> FALSE]

\* what get_directory_map hands back: the null pointer, the JSON object of a
\* FolderHierarchy, or the JSON text "[]" of an empty Vec<FolderHierarchy>
NullPtr == [kind |-> "null"]
JsonObject(node) == [kind |-> "object", node |-> node]
JsonEmptyArray == [kind |-> "array"]
NoResult == [kind |-> "none"]

Init ==
    /\ GLOBAL_DIRECTORY_MAP = EmptyHierarchy
    /\ lockHolder = 0
    /\ poisoned = FALSE
    /\ nScans = 0
    /\ pc = [t \in Threads |-> "unborn"]
    /\ tpath = [t \in Threads |-> <<>>]
    /\ entries = [t \in Threads |-> {}]
    /\ cur = [t \in Threads |-> <<>>]
    /\ sub = [t \in Threads |-> EmptyHierarchy]
    /\ unlistable \in SUBSET MayFailDirs
    /\ unreadable \in SUBSET MayFailFiles
    /\ seeder = 0
    /\ lastStart = <<>>
    /\ startedIdle = TRUE
    /\ lastQuery = NoCall
    /\ lastResult = NoResult
    /\ cancelRequested = FALSE
    /\ measured = NotMeasured

fsVars == << unlistable, unreadable >>
\* state no step of the two exported functions touches
otherVars == << cancelRequested, measured >>
startVars == << seeder, lastStart, startedIdle >>

\* a spawned scan thread that has not ended
Alive(t) == pc[t] \notin {"unborn", "done", "panicked"}
queryVars == << lastQuery, lastResult >>
threadVars == << tpath, entries, cur, sub >>

(***************************************************************************)
(* scan_directory_async (lines 76-139), the caller's part: an argument     *)
(* that is not UTF-8 returns at once; otherwise a thread is spawned and    *)
(* the call returns without waiting for it.                                *)
(***************************************************************************)
scan_directory_async(path_str) ==
    /\ nScans < MaxScans
    /\ IF ~IsUtf8(path_str)
       THEN UNCHANGED << nScans, pc, tpath, lastStart, startedIdle >>
       ELSE /\ nScans' = nScans + 1
            /\ pc' = [pc EXCEPT ![nScans + 1] = "lock"]
            /\ tpath' = [tpath EXCEPT ![nScans + 1] = path_str]
            /\ lastStart' = path_str
            /\ startedIdle' = \A t \in Threads : ~Alive(t)
    /\ UNCHANGED << GLOBAL_DIRECTORY_MAP, lockHolder, poisoned, entries, cur, sub,
                    fsVars, otherVars, seeder, queryVars >>

(***************************************************************************)
(* A panic of scan thread t: the thread ends and its locals are dropped; a *)
(* MutexGuard dropped while panicking poisons the Mutex and unlocks it.    *)
(***************************************************************************)
Panic(t) ==
    /\ pc' = [pc EXCEPT ![t] = "panicked"]
    /\ entries' = [entries EXCEPT ![t] = {}]
    /\ cur' = [cur EXCEPT ![t] = <<>>]
    /\ sub' = [sub EXCEPT ![t] = EmptyHierarchy]
    /\ IF lockHolder = t
       THEN lockHolder' = 0 /\ poisoned' = TRUE
       ELSE UNCHANGED << lockHolder, poisoned >>

\* mutant of LockFree: lock() does not wait for the holder of the Mutex
LockNeverWaits == TRUE

\* Mutex::lock returns only while no other thread holds the guard
LockFree == lockHolder = 0

(***************************************************************************)
(* Lines 96-105: build root_hierarchy, lock().unwrap() and replace the     *)
(* published root.  lock() waits for the Mutex; on a poisoned Mutex it     *)
(* returns Err and unwrap panics.                                          *)
(***************************************************************************)
SeedRoot(t) ==
    /\ pc[t] = "lock"
    /\ LockFree
    /\ IF poisoned
       THEN /\ Panic(t)
            /\ UNCHANGED << GLOBAL_DIRECTORY_MAP, seeder >>
       ELSE /\ lockHolder' = t
            /\ seeder' = t
            /\ GLOBAL_DIRECTORY_MAP' =
                   FolderHierarchy(0, FileName(tpath[t]), tpath[t], <<>>)
            /\ pc' = [pc EXCEPT ![t] = "read_dir"]
            /\ UNCHANGED << poisoned, entries, cur, sub >>
    /\ UNCHANGED << nScans, tpath, fsVars, otherVars, lastStart, startedIdle, queryVars >>

(***************************************************************************)
(* Line 108: fs::read_dir(directory_path).await.unwrap()                   *)
(***************************************************************************)
ReadDir(t) ==
    /\ pc[t] = "read_dir"
    /\ IF Listable(tpath[t])
       THEN /\ entries' = [entries EXCEPT ![t] =
                              {DirList(tpath[t])[i] : i \in 1..Len(DirList(tpath[t]))}]
            /\ pc' = [pc EXCEPT ![t] = "next_entry"]
            /\ UNCHANGED << lockHolder, poisoned, cur, sub >>
       ELSE Panic(t)
    /\ UNCHANGED << GLOBAL_DIRECTORY_MAP, nScans, tpath, fsVars, otherVars,
                    startVars, queryVars >>

(***************************************************************************)
(* Lines 111-115 and 136-137: next_entry() yields some entry not yielded   *)
(* yet (the order of a listing is the filesystem's) and the entry is       *)
(* classified; with no entry left the loop and the async block end, which  *)
(* drops the MutexGuard.                                                   *)
(***************************************************************************)
NextEntry(t) ==
    /\ pc[t] = "next_entry"
    /\ IF entries[t] = {}
       THEN /\ pc' = [pc EXCEPT ![t] = "done"]
            /\ lockHolder' = IF lockHolder = t THEN 0 ELSE lockHolder
            /\ UNCHANGED << entries, cur >>
       ELSE \E name \in entries[t] :
            /\ entries' = [entries EXCEPT ![t] = entries[t] \ {name}]
            /\ cur' = [cur EXCEPT ![t] = Join(tpath[t], name)]
            /\ pc' = [pc EXCEPT ![t] =
                         IF IsDir(Join(tpath[t], name)) THEN "scan_folder" ELSE "metadata"]
            /\ UNCHANGED lockHolder
    /\ UNCHANGED << GLOBAL_DIRECTORY_MAP, poisoned, nScans, tpath, sub, fsVars, otherVars,
                    startVars, queryVars >>

(***************************************************************************)
(* Line 117: scan_folder(path, ..).await.unwrap()                          *)
(***************************************************************************)
ScanSubdirectory(t) ==
    /\ pc[t] = "scan_folder"
    /\ LET r == scan_folder(cur[t]) IN
       IF r.ok
       THEN /\ sub' = [sub EXCEPT ![t] = r.node]
            /\ pc' = [pc EXCEPT ![t] = "add_value"]
            /\ UNCHANGED << lockHolder, poisoned, entries, cur >>
       ELSE Panic(t)
    /\ UNCHANGED << GLOBAL_DIRECTORY_MAP, nScans, tpath, fsVars, otherVars,
                    startVars, queryVars >>

(***************************************************************************)
(* Lines 122-130 and 133: path.metadata(); Ok prepares file_entry, Err is  *)
(* logged and the entry skipped.                                           *)
(***************************************************************************)
ReadMetadata(t) ==
    /\ pc[t] = "metadata"
    /\ IF cur[t] \in unreadable
       THEN /\ pc' = [pc EXCEPT ![t] = "next_entry"]
            /\ cur' = [cur EXCEPT ![t] = <<>>]
            /\ UNCHANGED sub
       ELSE /\ sub' = [sub EXCEPT ![t] =
                          FolderHierarchy(FileLen(cur[t]), FileName(cur[t]),
                                          Parent(cur[t]), <<>>)]
            /\ pc' = [pc EXCEPT ![t] = "add_value"]
            /\ UNCHANGED cur
    /\ UNCHANGED << GLOBAL_DIRECTORY_MAP, lockHolder, poisoned, nScans, tpath,
                    entries, fsVars, otherVars, startVars, queryVars >>

\* mutant of AddValue: the size update is lost
AddValueLost(t) ==
    /\ pc[t] = "add_value"
    /\ pc' = [pc EXCEPT ![t] = "push"]
    /\ UNCHANGED << GLOBAL_DIRECTORY_MAP, lockHolder, poisoned, nScans, threadVars,
                    fsVars, otherVars, startVars, queryVars >>

(***************************************************************************)
(* Lines 118 and 124: global_map.value += ...                              *)
(***************************************************************************)
AddValue(t) ==
    /\ pc[t] = "add_value"
    /\ GLOBAL_DIRECTORY_MAP' =
           [GLOBAL_DIRECTORY_MAP EXCEPT !.value = @ + sub[t].value]
    /\ pc' = [pc EXCEPT ![t] = "push"]
    /\ UNCHANGED << lockHolder, poisoned, nScans, threadVars, fsVars, otherVars,
                    startVars, queryVars >>

\* mutant of PushChild: the node is inserted in front of the children
PushChildFront(t) ==
    /\ pc[t] = "push"
    /\ GLOBAL_DIRECTORY_MAP' =
           [GLOBAL_DIRECTORY_MAP EXCEPT !.children = <<sub[t]>> \o @]
    /\ pc' = [pc EXCEPT ![t] = "next_entry"]
    /\ cur' = [cur EXCEPT ![t] = <<>>]
    /\ sub' = [sub EXCEPT ![t] = EmptyHierarchy]
    /\ UNCHANGED << lockHolder, poisoned, nScans, tpath, entries, fsVars, otherVars,
                    startVars, queryVars >>

(***************************************************************************)
(* Lines 119 and 131: global_map.children.push(...), which moves the node  *)
(* out of the loop body's local and ends the iteration.                    *)
(***************************************************************************)
PushChild(t) ==
    /\ pc[t] = "push"
    /\ GLOBAL_DIRECTORY_MAP' =
           [GLOBAL_DIRECTORY_MAP EXCEPT !.children = Append(@, sub[t])]
    /\ pc' = [pc EXCEPT ![t] = "next_entry"]
    /\ cur' = [cur EXCEPT ![t] = <<>>]
    /\ sub' = [sub EXCEPT ![t] = EmptyHierarchy]
    /\ UNCHANGED << lockHolder, poisoned, nScans, tpath, entries, fsVars, otherVars,
                    startVars, queryVars >>

(***************************************************************************)
(* get_directory_map (lines 143-208)                                       *)
(***************************************************************************)
\* lines 162-174: the root with each child's own children cleared
FirstLevel(directory_map) ==
    FolderHierarchy(directory_map.value, directory_map.name, directory_map.path,
        [i \in 1..Len(directory_map.children) |->
            FolderHierarchy(directory_map.children[i].value,
                            directory_map.children[i].name,
                            directory_map.children[i].path, <<>>)])

\* lines 153-205: the JSON built once the Mutex is taken
QueryJson(directory_map, isPoisoned, path_str, depth) ==
    IF isPoisoned
    THEN JsonObject(directory_map)
    ELSE IF Normalize(directory_map.path) = Normalize(path_str)
         THEN IF depth = 0 THEN JsonObject(FirstLevel(directory_map))
              ELSE IF depth = 1 THEN JsonObject(directory_map)
              ELSE JsonEmptyArray
         ELSE JsonEmptyArray

\* mutant of get_directory_map: the poisoned branch moves the tree out of
\* the Mutex (std::mem::take) instead of borrowing it
get_directory_map_take(path_str, depth) ==
    /\ lastQuery' = [path |-> path_str, scanning |-> \E t \in Threads : Alive(t)]
    /\ IF ~IsUtf8(path_str)
       THEN lastResult' = NullPtr /\ UNCHANGED GLOBAL_DIRECTORY_MAP
       ELSE /\ LockFree
            /\ lastResult' = QueryJson(GLOBAL_DIRECTORY_MAP, poisoned, path_str, depth)
            /\ GLOBAL_DIRECTORY_MAP' =
                  IF poisoned THEN EmptyHierarchy ELSE GLOBAL_DIRECTORY_MAP
    /\ UNCHANGED << lockHolder, poisoned, nScans, pc,
                    threadVars, fsVars, otherVars, startVars >>

\* the whole call: an argument that is not UTF-8 returns the null pointer
\* before the Mutex is touched; otherwise lock() waits for the Mutex
get_directory_map(path_str, depth) ==
    /\ lastQuery' = [path |-> path_str, scanning |-> \E t \in Threads : Alive(t)]
    /\ IF ~IsUtf8(path_str)
       THEN lastResult' = NullPtr
       ELSE /\ LockFree
            /\ lastResult' = QueryJson(GLOBAL_DIRECTORY_MAP, poisoned, path_str, depth)
    /\ UNCHANGED << GLOBAL_DIRECTORY_MAP, lockHolder, poisoned, nScans, pc,
                    threadVars, fsVars, otherVars, startVars >>

Next ==
    \/ \E p \in ScanPaths : scan_directory_async(p)
    \/ \E t \in Threads : SeedRoot(t)
    \/ \E t \in Threads : ReadDir(t)
    \/ \E t \in Threads : NextEntry(t)
    \/ \E t \in Threads : ScanSubdirectory(t)
    \/ \E t \in Threads : ReadMetadata(t)
    \/ \E t \in Threads : AddValue(t)
    \/ \E t \in Threads : PushChild(t)
    \/ \E p \in QueryPaths, d \in Depths : get_directory_map(p, d)

Spec == Init /\ [][Next]_vars

scanVars == << GLOBAL_DIRECTORY_MAP, lockHolder, poisoned, nScans, pc, threadVars,
              fsVars, startVars, queryVars >>

(***************************************************************************)
(* ScanController.cancel of the design: sets the cooperative stop flag and *)
(* returns.  lib.rs has no such entry point and no step of the scan thread *)
(* reads the flag.                                                         *)
(***************************************************************************)
cancel ==
    /\ cancelRequested' = TRUE
    /\ UNCHANGED << scanVars, measured >>

NextCancel == Next \/ cancel

SpecCancel == Init /\ [][NextCancel]_vars

(***************************************************************************)
(* Direct calls of the two walkers on a directory, as the tests make them  *)
(* (lines 226, 237, 269).                                                  *)
(***************************************************************************)
MeasureDirs == Dirs \cup {X}

Measure(d) ==
    /\ measured' = [dir |-> d, called |-> TRUE,
                     size |-> get_folder_size(d), node |-> scan_folder(d)]
    /\ UNCHANGED << scanVars, cancelRequested >>

NextPure == \E d \in MeasureDirs : Measure(d)

SpecPure == Init /\ [][NextPure]_vars

(***************************************************************************)
(* What the filesystem holds, for stating the properties.                  *)
(***************************************************************************)
EntryPaths(d) == { Join(d, DirList(d)[i]) : i \in 1..Len(DirList(d)) }
SubDirs(d) == { p \in EntryPaths(d) : IsDir(p) }
FilesIn(d) == { p \in EntryPaths(d) : ~IsDir(p) }
ReadableFilesIn(d) == FilesIn(d) \ unreadable

RECURSIVE SumLen(_)
SumLen(files) ==
    IF files = {} THEN 0
    ELSE LET f == CHOOSE x \in files : TRUE IN FileLen(f) + SumLen(files \ {f})

\* bytes of the files directly inside d whose metadata can be read
ReadableBytes(d) == SumLen(ReadableFilesIn(d))

RECURSIVE TotalReadable(_)
RECURSIVE SumTotals(_)
SumTotals(dirs) ==
    IF dirs = {} THEN 0
    ELSE LET d == CHOOSE x \in dirs : TRUE IN TotalReadable(d) + SumTotals(dirs \ {d})

\* bytes of the readable files anywhere below d
TotalReadable(d) == ReadableBytes(d) + SumTotals(SubDirs(d))

\* the filesystem entry a node stands for: the published root stores its
\* own path, every other node its parent's path and its name
RootDir(root) == root.path
NodeDir(n) == IF Len(n.path) = 0 THEN n.name ELSE n.path \o <<SEP>> \o n.name
ChildDirs(n) == { NodeDir(n.children[i]) : i \in 1..Len(n.children) }

\* the published tree as readers can see it: no scan thread holds the Mutex
Visible == lockHolder = 0
Ended(t) == pc[t] \in {"done", "panicked"}

(***************************************************************************)
(* C1 (amended).  Every node scan_folder produces, at any nesting level,   *)
(* has value = sum of its children's values + bytes of the files directly  *)
(* inside whose metadata could be read.  In the published root, completed  *)
(* or stopped early, every such file is itself a child carrying its        *)
(* length, and the root's value is the sum of its children's values alone. *)
(***************************************************************************)
RECURSIVE WalkerNodeSound(_)
WalkerNodeSound(n) ==
    /\ n.value = SumValues(n.children) + ReadableBytes(NodeDir(n))
    /\ \A i \in 1..Len(n.children) : WalkerNodeSound(n.children[i])

PublishedChildSound(c) ==
    IF IsDir(NodeDir(c))
    THEN WalkerNodeSound(c)
    ELSE /\ c.children = <<>>
         /\ NodeDir(c) \in ReadableFilesIn(RootDir(GLOBAL_DIRECTORY_MAP))
         /\ c.value = FileLen(NodeDir(c))

\* thread t holds in sub[t] the node scan_folder returned for cur[t]
HasWalkerResult(t) == pc[t] \in {"add_value", "push"} /\ IsDir(cur[t])

\* C1 (amended): a scan_folder node's value is its children's values plus
\* its readable direct files; the visible published root's value is the sum
\* of its children, which include one child per readable direct file
C1_NodeValueSound ==
    /\ \A t \in Threads : HasWalkerResult(t) => WalkerNodeSound(sub[t])
    /\ Visible =>
          /\ GLOBAL_DIRECTORY_MAP.value = SumValues(GLOBAL_DIRECTORY_MAP.children)
          /\ \A i \in 1..Len(GLOBAL_DIRECTORY_MAP.children) :
                PublishedChildSound(GLOBAL_DIRECTORY_MAP.children[i])

\* C1 witness: a scan that stopped early left a published root holding a
\* file child and a directory child that has a child of its own
C1_Witness ==
    /\ Visible /\ seeder # 0 /\ pc[seeder] = "panicked"
    /\ \E i, j \in 1..Len(GLOBAL_DIRECTORY_MAP.children) :
          /\ ~IsDir(NodeDir(GLOBAL_DIRECTORY_MAP.children[i]))
          /\ Len(GLOBAL_DIRECTORY_MAP.children[j].children) > 0

\* C1 as stated: the published root's value is the sum of its children's
\* values plus the bytes of the files directly inside the root directory
C1_AsStated ==
    Visible =>
       GLOBAL_DIRECTORY_MAP.value =
           SumValues(GLOBAL_DIRECTORY_MAP.children)
             + ReadableBytes(RootDir(GLOBAL_DIRECTORY_MAP))

(***************************************************************************)
(* C2 (amended).  scan_folder on a directory yields a node whose value is  *)
(* the total of the readable files anywhere below it, with exactly one     *)
(* child per immediate subdirectory and none for a file; the root a        *)
(* completed scan_directory_async publishes has the same value and         *)
(* children, plus one child per readable file directly inside the root.    *)
(***************************************************************************)
WalkerResultExact(d, n) ==
    /\ n.value = TotalReadable(d)
    /\ ChildDirs(n) = SubDirs(d)
    /\ Len(n.children) = Cardinality(SubDirs(d))
    /\ \A i \in 1..Len(n.children) :
          n.children[i].value = TotalReadable(NodeDir(n.children[i]))

\* the published root is the result of a scan that ran to its end
Completed == Visible /\ seeder # 0 /\ pc[seeder] = "done"

\* C2 (amended): value = total of the readable files below; one child per
\* immediate subdirectory, and in a published root also one per readable
\* direct file
C2_ScanResult ==
    /\ \A t \in Threads :
          HasWalkerResult(t) =>
             /\ WalkerResultExact(cur[t], sub[t])
             /\ unreadable = {} /\ cur[t] = A1 =>
                    sub[t] = FolderHierarchy(12, <<"a1">>, A, <<>>)
             /\ unreadable = {} /\ cur[t] = A =>
                    /\ sub[t].value = 25
                    /\ sub[t].children = <<FolderHierarchy(12, <<"a1">>, A, <<>>)>>
    /\ Completed =>
          LET root == GLOBAL_DIRECTORY_MAP
              d == RootDir(root)
          IN /\ root.value = TotalReadable(d)
             /\ ChildDirs(root) = SubDirs(d) \cup ReadableFilesIn(d)
             /\ Len(root.children) = Cardinality(SubDirs(d) \cup ReadableFilesIn(d))
             /\ \A i \in 1..Len(root.children) :
                   root.children[i].value =
                       IF IsDir(NodeDir(root.children[i]))
                       THEN TotalReadable(NodeDir(root.children[i]))
                       ELSE FileLen(NodeDir(root.children[i]))

\* C2 witness: the completed scan of r/a published value 25 with the
\* subdirectory a1 (12 bytes) and the file f2 (13 bytes) as children
C2_Witness ==
    /\ Completed
    /\ RootDir(GLOBAL_DIRECTORY_MAP) = A
    /\ GLOBAL_DIRECTORY_MAP.value = 25
    /\ Len(GLOBAL_DIRECTORY_MAP.children) = 2

\* C2 as stated: the root a completed scan publishes has exactly one child
\* per immediate subdirectory and no child for a file
C2_AsStated ==
    Completed =>
       /\ GLOBAL_DIRECTORY_MAP.value = TotalReadable(RootDir(GLOBAL_DIRECTORY_MAP))
       /\ ChildDirs(GLOBAL_DIRECTORY_MAP) = SubDirs(RootDir(GLOBAL_DIRECTORY_MAP))

(***************************************************************************)
(* C3.  The scan thread holds the Mutex only while it attaches or replaces *)
(* a node, never across a directory listing, a recursive subtree scan or a *)
(* metadata read, so a query can always complete during a scan.            *)
(***************************************************************************)
FilesystemSteps == {"read_dir", "next_entry", "scan_folder", "metadata"}

\* C3: no scan thread holds the Mutex at a filesystem step
C3_NoLockAcrossIO ==
    \A t \in Threads : pc[t] \in FilesystemSteps => lockHolder # t

(***************************************************************************)
(* C4.  Every tree a query returns while a scan is in progress has a root  *)
(* value equal to the sum of the values of the children returned with it.  *)
(***************************************************************************)
C4_QueryConsistent ==
    lastQuery.scanning /\ lastResult.kind = "object" =>
       lastResult.node.value = SumValues(lastResult.node.children)

\* C4 witness: a query answered during a scan returned a root with children
C4_Witness ==
    /\ lastQuery.scanning
    /\ lastResult.kind = "object"
    /\ Len(lastResult.node.children) > 0

(***************************************************************************)
(* C5.  Once scan_directory_async on path P has returned, the published    *)
(* root is a node for P, so a query for P succeeds with that root.         *)
(***************************************************************************)
C5_SeededWhenStartReturns ==
    lastStart # <<>> /\ Visible =>
       LET r == QueryJson(GLOBAL_DIRECTORY_MAP, poisoned, lastStart, 1)
       IN r.kind = "object" /\ r.node.path = lastStart

(***************************************************************************)
(* C6.  In every state a query whose path does not match the published    *)
(* root's path gets a not-found result, never the published root's tree.   *)
(***************************************************************************)
C6_MismatchIsNotFound ==
    Visible =>
       \A p \in QueryPaths, d \in Depths :
          IsUtf8(p) /\ Normalize(p) # Normalize(GLOBAL_DIRECTORY_MAP.path) =>
             QueryJson(GLOBAL_DIRECTORY_MAP, poisoned, p, d).kind # "object"

(***************************************************************************)
(* C7.  A depth-0 query on a matching path returns the published root with *)
(* all its direct children, each with an empty children list, and the      *)
(* values of the root and of each child as held in the published tree.     *)
(***************************************************************************)
C7_DepthZeroProjection ==
    Visible =>
       \A p \in QueryPaths :
          IsUtf8(p) /\ Normalize(p) = Normalize(GLOBAL_DIRECTORY_MAP.path) =>
             LET root == GLOBAL_DIRECTORY_MAP
                 r == QueryJson(root, poisoned, p, 0)
             IN /\ r.kind = "object"
                /\ r.node.value = root.value
                /\ Len(r.node.children) = Len(root.children)
                /\ \A i \in 1..Len(root.children) :
                      /\ r.node.children[i].children = <<>>
                      /\ r.node.children[i].value = root.children[i].value
                      /\ r.node.children[i].name = root.children[i].name

(***************************************************************************)
(* C8.  scan_directory_async called while a scan is running launches no    *)
(* second scan.                                                            *)
(***************************************************************************)
C8_NoSecondScan == [][lockHolder # 0 => nScans' = nScans]_vars

(***************************************************************************)
(* C9.  After a scan has ended in any way, a scan started next succeeds in *)
(* seeding the published root: the thread of a scan_directory_async called *)
(* while no scan was running does not end at its lock().                   *)
(***************************************************************************)
C9_NextScanSeeds ==
    [][startedIdle /\ nScans > 0 /\ pc[nScans] = "lock" /\ pc'[nScans] # "lock" =>
          pc'[nScans] = "read_dir" /\ seeder' = nScans]_vars

(***************************************************************************)
(* C10.  A subdirectory that cannot be listed does not abort the scan: it  *)
(* is still attached to its parent with size zero and the entries after it *)
(* are still processed, so once the scan of a listable root has ended      *)
(* every immediate subdirectory of the root is among the root's children.  *)
(***************************************************************************)
C10_UnlistableSubdirKept ==
    Visible /\ seeder # 0 /\ Ended(seeder) /\ Listable(RootDir(GLOBAL_DIRECTORY_MAP)) =>
       /\ SubDirs(RootDir(GLOBAL_DIRECTORY_MAP)) \subseteq ChildDirs(GLOBAL_DIRECTORY_MAP)
       /\ \A i \in 1..Len(GLOBAL_DIRECTORY_MAP.children) :
             NodeDir(GLOBAL_DIRECTORY_MAP.children[i]) \in unlistable =>
                GLOBAL_DIRECTORY_MAP.children[i].value = 0

(***************************************************************************)
(* C11.  With the Mutex poisoned a query reports an internal error and     *)
(* never returns the tree as an ordinary result.                           *)
(***************************************************************************)
C11_PoisonedIsError ==
    Visible /\ poisoned =>
       \A p \in QueryPaths, d \in Depths :
          IsUtf8(p) => QueryJson(GLOBAL_DIRECTORY_MAP, poisoned, p, d).kind # "object"

(***************************************************************************)
(* C13.  A query on a matching path with a depth other than 0 and 1        *)
(* reports an error: neither the empty array of a not-found query nor a    *)
(* tree.                                                                   *)
(***************************************************************************)
C13_InvalidDepthIsError ==
    Visible =>
       \A p \in QueryPaths, d \in Depths \ {0, 1} :
          IsUtf8(p) /\ Normalize(p) = Normalize(GLOBAL_DIRECTORY_MAP.path) =>
             QueryJson(GLOBAL_DIRECTORY_MAP, poisoned, p, d).kind \notin {"array", "object"}

(***************************************************************************)
(* C16.  A file whose metadata cannot be read is left out of the total and *)
(* the failure is recorded in the result tree: the root a completed scan   *)
(* publishes holds an entry for every unreadable file directly inside it.  *)
(***************************************************************************)
C16_UnreadableRecorded ==
    Completed =>
       /\ GLOBAL_DIRECTORY_MAP.value = TotalReadable(RootDir(GLOBAL_DIRECTORY_MAP))
       /\ (FilesIn(RootDir(GLOBAL_DIRECTORY_MAP)) \cap unreadable)
             \subseteq ChildDirs(GLOBAL_DIRECTORY_MAP)

(***************************************************************************)
(* C12.  Once cancel() has been requested and the entry in flight is       *)
(* finished, the scan takes up no further entry: no further listing, no    *)
(* further growth of the published tree.                                   *)
(***************************************************************************)
C12_CancelStopsScan ==
    [][\A t \in Threads :
          cancelRequested /\ pc[t] = "next_entry" =>
             pc'[t] \notin {"scan_folder", "metadata"}]_vars

(***************************************************************************)
(* C20 (amended).  Where both succeed, get_folder_size returns the value   *)
(* of scan_folder's root node, the total length of the files below the     *)
(* directory whose metadata can be read, which is greater than 0 whenever  *)
(* such a file is not empty.                                               *)
(***************************************************************************)
RECURSIVE FilesBelow(_)
RECURSIVE FilesBelowAll(_)
FilesBelowAll(dirs) ==
    IF dirs = {} THEN {}
    ELSE LET d == CHOOSE x \in dirs : TRUE IN FilesBelow(d) \cup FilesBelowAll(dirs \ {d})

FilesBelow(d) == FilesIn(d) \cup FilesBelowAll(SubDirs(d))

BothSucceeded == measured.called /\ measured.size.ok /\ measured.node.ok

\* C20 (amended): equal results, equal to the readable total
C20_SizeEqualsScanValue ==
    BothSucceeded =>
       /\ measured.size.size = measured.node.node.value
       /\ measured.size.size = SumLen(FilesBelow(measured.dir) \ unreadable)
       /\ (\E f \in FilesBelow(measured.dir) \ unreadable : FileLen(f) > 0) =>
             measured.size.size > 0

\* C20 witness: both walkers ran on r with an unreadable file below it
C20_Witness ==
    /\ BothSucceeded
    /\ measured.dir = R
    /\ unreadable # {}
    /\ measured.size.size > 0

\* C20 as stated: the common result is the total length of all regular
\* files below the directory
C20_AsStated ==
    BothSucceeded =>
       /\ measured.size.size = measured.node.node.value
       /\ measured.size.size = SumLen(FilesBelow(measured.dir))

(***************************************************************************)
(* C14.  In the published tree every node's path is the full path of its   *)
(* entry: its name is the final component of its own path and no two      *)
(* distinct nodes share a path.                                            *)
(***************************************************************************)
RECURSIVE AllNodes(_)
RECURSIVE NodesOf(_)
NodesOf(nodes) ==
    IF Len(nodes) = 0 THEN {} ELSE AllNodes(nodes[1]) \cup NodesOf(Tail(nodes))

AllNodes(n) == {n} \cup NodesOf(n.children)

C14_PathIdentifiesNode ==
    Visible =>
       LET nodes == AllNodes(GLOBAL_DIRECTORY_MAP)
       IN /\ \A n \in nodes : n.name = FileName(n.path)
          /\ \A n, m \in nodes : n # m => n.path # m.path

(***************************************************************************)
(* C15.  Within one scan the published root only grows by appending: its   *)
(* children stay a prefix of the later children, its value never           *)
(* decreases and its name and path stay; the only other change is the      *)
(* replacement of the root by the fresh root of a newly seeded scan.       *)
(***************************************************************************)
IsPrefix(s, t) == Len(s) <= Len(t) /\ SubSeq(t, 1, Len(s)) = s

C15_AppendOnly ==
    [][IF seeder' = seeder
       THEN /\ IsPrefix(GLOBAL_DIRECTORY_MAP.children, GLOBAL_DIRECTORY_MAP'.children)
            /\ GLOBAL_DIRECTORY_MAP'.value >= GLOBAL_DIRECTORY_MAP.value
            /\ GLOBAL_DIRECTORY_MAP'.path = GLOBAL_DIRECTORY_MAP.path
            /\ GLOBAL_DIRECTORY_MAP'.name = GLOBAL_DIRECTORY_MAP.name
       ELSE /\ GLOBAL_DIRECTORY_MAP'.children = <<>>
            /\ GLOBAL_DIRECTORY_MAP'.value = 0]_vars

\* C15 witness: a running scan has attached a third child after two others
C15_Witness ==
    /\ lockHolder # 0
    /\ pc[lockHolder] = "next_entry"
    /\ Len(GLOBAL_DIRECTORY_MAP.children) = 3

(***************************************************************************)
(* C17.  Query path matching is insensitive to the separator: the result   *)
(* of every get_directory_map call is the result every path differing from *)
(* its argument only in "\" versus "/" gives against the same root, and a  *)
(* healthy root whose stored path differs from the argument only in the    *)
(* separator used is matched (depth 0 or 1 returns that root's object).    *)
(***************************************************************************)
IsSeparator(c) == c \in {SEP, BSL}

SameUpToSeparator(p, q) ==
    /\ Len(p) = Len(q)
    /\ \A i \in 1..Len(p) : p[i] = q[i] \/ (IsSeparator(p[i]) /\ IsSeparator(q[i]))

Utf8QueryPaths == { p \in QueryPaths : IsUtf8(p) }

C17_SeparatorInsensitive ==
    [][\A d \in Depths :
          LET p == lastQuery'.path
          IN  (p \in Utf8QueryPaths /\ get_directory_map(p, d)) =>
                 /\ \A q \in Utf8QueryPaths :
                       SameUpToSeparator(p, q) =>
                          lastResult' = QueryJson(GLOBAL_DIRECTORY_MAP, poisoned, q, d)
                 /\ (/\ ~poisoned
                     /\ SameUpToSeparator(p, GLOBAL_DIRECTORY_MAP.path)
                     /\ d \in {0, 1})
                    => /\ lastResult'.kind = "object"
                       /\ lastResult'.node.path = GLOBAL_DIRECTORY_MAP.path]_vars

\* C17 witness: the query "r/a" was answered with the healthy root stored as "r\a"
C17_Witness ==
    /\ ~poisoned
    /\ lastQuery.path = A
    /\ lastResult.kind = "object"
    /\ lastResult.node.path = W

(***************************************************************************)
(* C18.  Overlapping scans never interleave their writes: a thread between *)
(* its root replacement and its end holds the Mutex and is the seeder of   *)
(* the published root, so no root is replaced while another thread is      *)
(* still writing, and every child attached to the published root is an     *)
(* entry of the seeding scan's directory, attached once.                   *)
(***************************************************************************)
Writing(t) ==
    pc[t] \in {"read_dir", "next_entry", "scan_folder", "metadata", "add_value", "push"}

C18_NoInterleaving ==
    /\ \A t \in Threads : Writing(t) => lockHolder = t /\ seeder = t
    /\ \A t, u \in Threads : Writing(t) /\ Writing(u) => t = u
    /\ seeder # 0 =>
          /\ GLOBAL_DIRECTORY_MAP.path = tpath[seeder]
          /\ \A i \in 1..Len(GLOBAL_DIRECTORY_MAP.children) :
                /\ GLOBAL_DIRECTORY_MAP.children[i].path = tpath[seeder]
                /\ NodeDir(GLOBAL_DIRECTORY_MAP.children[i]) \in EntryPaths(tpath[seeder])
                /\ \A j \in 1..Len(GLOBAL_DIRECTORY_MAP.children) :
                      NodeDir(GLOBAL_DIRECTORY_MAP.children[i])
                         = NodeDir(GLOBAL_DIRECTORY_MAP.children[j]) => i = j

\* C18 witness: a scan started while another was running has replaced the
\* root after the other ended, and has attached children of its own
C18_Witness ==
    /\ nScans >= 2
    /\ ~startedIdle
    /\ seeder = nScans
    /\ Writing(seeder)
    /\ \E t \in Threads : t # seeder /\ Ended(t) /\ tpath[t] # tpath[seeder]
    /\ Len(GLOBAL_DIRECTORY_MAP.children) > 0

(***************************************************************************)
(* C19.  A query never changes the published tree: for every path, every   *)
(* depth and a healthy or a poisoned Mutex, the published root with its    *)
(* value and children, and the state of the Mutex, are the same after      *)
(* get_directory_map as before it.                                         *)
(***************************************************************************)
C19_QueryReadsOnly ==
    [][(\E p \in QueryPaths, d \in Depths : get_directory_map(p, d)) =>
          UNCHANGED << GLOBAL_DIRECTORY_MAP, lockHolder, poisoned >>]_vars

\* C19 witness: a query on the poisoned Mutex returned a tree with children
\* and the published tree is still that tree
C19_Witness ==
    /\ poisoned
    /\ lastResult.kind = "object"
    /\ Len(lastResult.node.children) > 0
    /\ GLOBAL_DIRECTORY_MAP = lastResult.node

=============================================================================
